---- MODULE Spec2Model ----
(***************************************************************************)
(* yamps (src/main.rs): the in-process cache (Cache.data + Cache.expiries), *)
(* the background sweeper clear_cache, the expiry purger delete_expired and *)
(* the per-client rate limiter inside submit, as a state machine.           *)
(*                                                                          *)
(* Time is counted in ticks, TicksPerSec to the second; std::time::Instant  *)
(* and chrono::Local::now() both read the clock `now`.                      *)
(* A String is the record [len, cap]: its byte length (which stands for its *)
(* text) and its allocated capacity, the quantity String::capacity()        *)
(* returns.  Keys are 1..NumTasks, ordered as the key strings are.           *)
(***************************************************************************)
EXTENDS Integers, FiniteSets, Bags, TLC

\* ---------------------------------------------------------------- bounds
NumTasks == 2
TicksPerSec == 2

\* ------------------------------------------------------ program constants
KeyLen == 8
MiB == 1048576
DefaultSizeLimit == 1024
KiB == 1024
WeekSecs == 604800

Tasks == 1..NumTasks
\* one key for every request that may be a submission
Keys == 1..NumTasks
Identities == {"A", "B"}

None == [some |-> FALSE, val |-> 0]
Some(v) == [some |-> TRUE, val |-> v]

\* Config.ratelimit (seconds) and Config.cache (MiB) as the configuration file
\* may set them; Config.size_limit is left unset.
RatelimitChoices == {None, Some(1)}
CacheChoices == {None, Some(0), Some(1)}

\* Byte lengths of the submitted form field (text without characters that
\* escape_html rewrites), and Content-Length values of the request.
DataChoices == {2, 600000}
LengthChoices == {700000, 2000000}

WeekTicks == WeekSecs * TicksPerSec

\* The clock is followed tick by tick over the longest configured rate-limit
\* interval, and over one tick after a week has gone by.
MaxTicks == TicksPerSec

NoKey == 0
NoString == [len |-> 0, cap |-> 0]
NoItem == <<0, NoKey>>
NoResp == [kind |-> "none", val |-> 0]
Free == 0
Sweeper == -1

VARIABLES
    config,       \* Config: [ratelimit, cache, size_limit]
    now,          \* the clock, in ticks
    ratelimits,   \* DashMap<String, Instant>: identity -> Instant
    db,           \* table pastes: key -> [len, expires]
    data,         \* Cache.data: key -> String
    expiries,     \* Cache.expiries: the BinaryHeap, a bag of <<time, key>>
    lock,         \* holder of the RwLock around Cache.expiries, or Free
    issued,       \* keys random_string::generate has returned
    pc,           \* position of each request handler (one request each)
    remote,       \* submit: the client identity
    key,          \* submit: key; getpaste: id
    contents,     \* submit/getpaste: contents
    resp,         \* the handler's last response
    spc,          \* position of clear_cache
    size,         \* clear_cache: size
    cursor,       \* clear_cache: position of cache.data.iter()
    item          \* clear_cache: the peeked heap element

vars == <<config, now, ratelimits, db, data, expiries, lock, issued,
          pc, remote, key, contents, resp, spc, size, cursor, item>>

shared == <<ratelimits, db, data, expiries, lock, issued>>
sweeperVars == <<spc, size, cursor, item>>

\* ---------------------------------------------------------------- helpers

\* String::capacity()
capacity(s) == s.cap

\* tera::escape_html(&data): String::with_capacity(2 * len), nothing rewritten
escape_html(d) == [len |-> d, cap |-> 2 * d]

\* a copy that comes out empty
to_string_empty(n) == [len |-> 0, cap |-> 0]

\* item.value().to_string() and a TEXT column read back: a String that is
\* exactly as large as its text
to_string(n) == [len |-> n, cap |-> n]

\* Ord on (DateTime, String)
TupleLe(a, b) == a[1] < b[1] \/ (a[1] = b[1] /\ a[2] <= b[2])

\* BinaryHeap::peek(): the greatest element
peek(h) == CHOOSE e \in BagToSet(h) : \A f \in BagToSet(h) : TupleLe(f, e)

\* a push that loses the element
push_lost(h, e) == h

\* BinaryHeap::push
push(h, e) == h (+) SetToBag({e})

\* a pop that removes the least element
pop_min(h) ==
    IF BagToSet(h) = {} THEN h
    ELSE h (-) SetToBag({CHOOSE e \in BagToSet(h) :
                            \A f \in BagToSet(h) : TupleLe(e, f)})

\* BinaryHeap::pop(): removes the greatest element
pop(h) == IF BagToSet(h) = {} THEN h ELSE h (-) SetToBag({peek(h)})

IsEmpty(h) == BagToSet(h) = {}

\* an insert that leaves k as the only entry of the map
MapInsertAlone(m, k, v) == [x \in {k} |-> v]

\* DashMap::insert / DashMap::remove
MapInsert(m, k, v) == [x \in DOMAIN m \cup {k} |-> IF x = k THEN v ELSE m[x]]
MapRemove(m, k) == [x \in DOMAIN m \ {k} |-> m[x]]

\* usize values are kept as representatives: a value of 2^64 - n (n small)
\* is written -n, the value a wrapping subtraction leaves.
UsizeGt(a, b) == IF a < 0 THEN (b >= 0 \/ a > b) ELSE (b >= 0 /\ a > b)

\* Requests are numbered in the order in which their handlers start.
Ready(t) == pc[t] = "idle" /\ (IF t = 1 THEN TRUE ELSE pc[t - 1] # "idle")

Finish(t, r) ==
    /\ pc' = [pc EXCEPT ![t] = "done"]
    /\ resp' = [resp EXCEPT ![t] = r]
    /\ remote' = [remote EXCEPT ![t] = "A"]
    /\ key' = [key EXCEPT ![t] = NoKey]
    /\ contents' = [contents EXCEPT ![t] = NoString]

\* the Option tested as if it were always Some
cache_unconditional == TRUE

\* if let Some(_) = state.config.cache (lines 168, 193, 210) and
\* if let Some(max_size) = max (line 246)
cache_enabled == config.cache.some

\* the rate limit taken as configured whatever the file says
ratelimit_unconditional == TRUE

\* if let Some(wait_time) = state.config.ratelimit (line 119)
ratelimit_enabled == config.ratelimit.some

\* ------------------------------------------------------------------- Init
Init ==
    /\ config \in [ratelimit : RatelimitChoices, cache : CacheChoices,
                   size_limit : {None}]
    /\ now = 0
    /\ ratelimits = <<>>
    /\ db = <<>>
    /\ data = <<>>
    /\ expiries = EmptyBag
    /\ lock = Free
    /\ issued = {}
    /\ pc = [t \in Tasks |-> "idle"]
    /\ remote = [t \in Tasks |-> "A"]
    /\ key = [t \in Tasks |-> NoKey]
    /\ contents = [t \in Tasks |-> NoString]
    /\ resp = [t \in Tasks |-> NoResp]
    /\ spc = "start"
    /\ size = 0
    /\ cursor = 0
    /\ item = NoItem

\* ------------------------------------------------------------------ clock
Tick ==
    /\ now < MaxTicks \/ now = WeekTicks
    /\ now' = now + 1
    /\ UNCHANGED <<config, shared, pc, remote, key, contents, resp,
                   sweeperVars>>

\* chrono::Duration::weeks(1) goes by
WeekPasses ==
    /\ now = 0
    /\ now' = now + WeekTicks
    /\ UNCHANGED <<config, shared, pc, remote, key, contents, resp,
                   sweeperVars>>

\* ----------------------------------------------------------------- submit

\* Duration::from_secs(wait_time).checked_sub(last_paste.elapsed())
\*     .map(|x| x.as_secs())
time_until_unlimited(wait_time, elapsed) ==
    IF wait_time * TicksPerSec >= elapsed
    THEN Some((wait_time * TicksPerSec - elapsed) \div TicksPerSec)
    ELSE None

\* a check that stamps the table on a rejection as well
SubmitCheckStamping(t) ==
    /\ Ready(t)
    /\ IF ratelimit_enabled
       THEN \E who \in Identities :
              LET left == IF who \in DOMAIN ratelimits
                          THEN time_until_unlimited(config.ratelimit.val,
                                                    now - ratelimits[who])
                          ELSE None
              IN IF left.some
                 THEN /\ pc' = [pc EXCEPT ![t] = "done"]
                      /\ resp' = [resp EXCEPT
                            ![t] = [kind |-> "RateLimited", val |-> left.val]]
                      /\ remote' = [remote EXCEPT ![t] = who]
                      /\ ratelimits' = MapInsert(ratelimits, who, now)
                      /\ UNCHANGED <<key, contents>>
                 ELSE /\ pc' = [pc EXCEPT ![t] = "s_insert"]
                      /\ remote' = [remote EXCEPT ![t] = who]
                      /\ UNCHANGED <<key, contents, resp, ratelimits>>
       ELSE /\ pc' = [pc EXCEPT ![t] = "s_store"]
            /\ UNCHANGED <<remote, key, contents, resp, ratelimits>>
    /\ UNCHANGED <<config, now, db, data, expiries, lock, issued,
                   sweeperVars>>

\* lines 119-134: the request arrives; with a rate limit configured the
\* table is read and the request is rejected or goes on to the insert.
SubmitCheck(t) ==
    /\ Ready(t)
    /\ IF ratelimit_enabled
       THEN \E who \in Identities :
              LET left == IF who \in DOMAIN ratelimits
                          THEN time_until_unlimited(config.ratelimit.val,
                                                    now - ratelimits[who])
                          ELSE None
              IN IF left.some
                 THEN /\ pc' = [pc EXCEPT ![t] = "done"]
                      /\ resp' = [resp EXCEPT
                            ![t] = [kind |-> "RateLimited", val |-> left.val]]
                      /\ remote' = [remote EXCEPT ![t] = who]
                      /\ UNCHANGED <<key, contents>>
                 ELSE /\ pc' = [pc EXCEPT ![t] = "s_insert"]
                      /\ remote' = [remote EXCEPT ![t] = who]
                      /\ UNCHANGED <<key, contents, resp>>
       ELSE /\ pc' = [pc EXCEPT ![t] = "s_store"]
            /\ UNCHANGED <<remote, key, contents, resp>>
    /\ UNCHANGED <<config, now, shared, sweeperVars>>

\* an admission that is not written into the table
SubmitInsertSkipped(t) ==
    /\ pc[t] = "s_insert"
    /\ pc' = [pc EXCEPT ![t] = "s_store"]
    /\ UNCHANGED <<config, now, shared, remote, key, contents, resp,
                   sweeperVars>>

\* line 135: ratelimits.insert(remote, Instant::now())
SubmitInsert(t) ==
    /\ pc[t] = "s_insert"
    /\ ratelimits' = MapInsert(ratelimits, remote[t], now)
    /\ pc' = [pc EXCEPT ![t] = "s_store"]
    /\ UNCHANGED <<config, now, db, data, expiries, lock, issued,
                   remote, key, contents, resp, sweeperVars>>

\* state.config.size_limit.unwrap_or(1024) * 1024
size_limit_bytes ==
    (IF config.size_limit.some THEN config.size_limit.val
                               ELSE DefaultSizeLimit) * KiB

\* lines 139-167: the length check, the form field, the key and the INSERT
SubmitStore(t) ==
    /\ pc[t] = "s_store"
    /\ \E length \in LengthChoices, d \in DataChoices, k \in Keys \ issued,
          outcome \in {"ok", "FieldInvalid", "Sqlx"} :
          IF length > size_limit_bytes
          THEN /\ Finish(t, [kind |-> "PasteTooLarge", val |-> 0])
               /\ UNCHANGED <<db, issued>>
          ELSE IF outcome = "FieldInvalid"
          THEN /\ Finish(t, [kind |-> "FieldInvalid", val |-> 0])
               /\ UNCHANGED <<db, issued>>
          ELSE IF outcome = "Sqlx"
          THEN /\ Finish(t, [kind |-> "Sqlx", val |-> 0])
               /\ issued' = issued \cup {k}
               /\ UNCHANGED db
          ELSE /\ issued' = issued \cup {k}
               /\ db' = MapInsert(db, k, [len |-> escape_html(d).len,
                                          expires |-> now + WeekTicks])
               /\ IF cache_enabled
                  THEN /\ pc' = [pc EXCEPT ![t] = "s_lock"]
                       /\ key' = [key EXCEPT ![t] = k]
                       /\ contents' = [contents EXCEPT ![t] = escape_html(d)]
                       /\ UNCHANGED <<resp, remote>>
                  ELSE Finish(t, [kind |-> "Found", val |-> k])
    /\ UNCHANGED <<config, now, ratelimits, data, expiries, lock,
                   sweeperVars>>

\* a write() that does not wait for the holder of the lock
LockWriteBarging(t, at, next) ==
    /\ pc[t] = at
    /\ lock' = t
    /\ pc' = [pc EXCEPT ![t] = next]
    /\ UNCHANGED <<config, now, ratelimits, db, data, expiries, issued,
                   remote, key, contents, resp, sweeperVars>>

\* line 169 / line 211: let mut heap = cache.expiries.write()
LockWrite(t, at, next) ==
    /\ pc[t] = at
    /\ lock = Free
    /\ lock' = t
    /\ pc' = [pc EXCEPT ![t] = next]
    /\ UNCHANGED <<config, now, ratelimits, db, data, expiries, issued,
                   remote, key, contents, resp, sweeperVars>>

\* the Ref the probe of getpaste took and then kept until it returned
RefUntilReturn(t) ==
    IF pc[t] \in {"g_hit", "g_lock", "g_data", "g_push"} THEN key[t] ELSE NoKey

\* lines 193-196: the key whose shard of cache.data handler t holds read-locked
\* through the Ref that cache.data.get(&id) returned; the Ref is a temporary
\* of the `if let` and is dropped where that statement ends (line 209).
Ref(t) == IF pc[t] = "g_hit" THEN key[t] ELSE NoKey

\* DashMap::insert and DashMap::remove write-lock the shard of the key: they
\* wait while a Ref into that shard is alive.
ShardFree(k) == \A u \in Tasks : Ref(u) # k

\* line 170 / line 212: cache.data.insert(key.clone(), contents)
DataInsert(t, at, next) ==
    /\ pc[t] = at
    /\ ShardFree(key[t])
    /\ data' = MapInsert(data, key[t], contents[t])
    /\ pc' = [pc EXCEPT ![t] = next]
    /\ UNCHANGED <<config, now, ratelimits, db, expiries, lock, issued,
                   remote, key, contents, resp, sweeperVars>>

\* line 171 / line 213: heap.push((Local::now(), key.clone())); the write
\* guard is dropped at the end of the block and the response is built.
HeapPush(t, at, r) ==
    /\ pc[t] = at
    /\ expiries' = push(expiries, <<now, key[t]>>)
    /\ lock' = Free
    /\ Finish(t, r)
    /\ UNCHANGED <<config, now, ratelimits, db, data, issued,
                   sweeperVars>>

SubmitLock(t) == LockWrite(t, "s_lock", "s_data")
SubmitData(t) == DataInsert(t, "s_data", "s_push")
SubmitPush(t) == HeapPush(t, "s_push", [kind |-> "Found", val |-> key[t]])

\* --------------------------------------------------------------- getpaste

\* lines 193-195: the cache probe.  On a hit the contents are copied out of
\* the map through the Ref and "Cache hit!" is traced; on a miss the handler
\* goes to the database.
GetProbe(t) ==
    /\ Ready(t)
    /\ \E id \in Keys :
          /\ key' = [key EXCEPT ![t] = id]
          /\ IF cache_enabled /\ id \in DOMAIN data
             THEN /\ contents' = [contents EXCEPT
                                     ![t] = to_string(data[id].len)]
                  /\ pc' = [pc EXCEPT ![t] = "g_hit"]
                  /\ resp' = [resp EXCEPT ![t] = [kind |-> "CacheHit",
                                                  val |-> data[id].len]]
             ELSE /\ contents' = [contents EXCEPT ![t] = NoString]
                  /\ pc' = [pc EXCEPT ![t] = "g_db"]
                  /\ UNCHANGED resp
    /\ UNCHANGED <<config, now, shared, remote, sweeperVars>>

\* line 209: the `if let` statement ends and the Ref is dropped
GetRelease(t) ==
    /\ pc[t] = "g_hit"
    /\ pc' = [pc EXCEPT ![t] = "g_lock"]
    /\ UNCHANGED <<config, now, shared, remote, key, contents, resp,
                   sweeperVars>>

\* lines 197-208: SELECT contents FROM pastes WHERE key = $1
GetDb(t) ==
    /\ pc[t] = "g_db"
    /\ \E outcome \in {"ok", "Sqlx"} :
          IF outcome = "Sqlx"
          THEN Finish(t, [kind |-> "Sqlx", val |-> 0])
          ELSE IF key[t] \notin DOMAIN db
          THEN Finish(t, [kind |-> "NotFound", val |-> 0])
          ELSE IF cache_enabled
          THEN /\ contents' = [contents EXCEPT
                                  ![t] = to_string(db[key[t]].len)]
               /\ pc' = [pc EXCEPT ![t] = "g_lock"]
               /\ UNCHANGED <<resp, remote, key>>
          ELSE Finish(t, [kind |-> "OK", val |-> db[key[t]].len])
    /\ UNCHANGED <<config, now, shared, sweeperVars>>

GetLock(t) == LockWrite(t, "g_lock", "g_data")
GetData(t) == DataInsert(t, "g_data", "g_push")
GetPush(t) == HeapPush(t, "g_push", [kind |-> "OK", val |-> contents[t].len])

\* --------------------------------------------------------- delete_expired
\* DELETE FROM pastes WHERE expires < $1
DeleteExpired ==
    /\ db' = [k \in {x \in DOMAIN db : ~(db[x].expires < now)} |-> db[k]]
    /\ db' # db
    /\ UNCHANGED <<config, now, ratelimits, data, expiries, lock, issued,
                   pc, remote, key, contents, resp, sweeperVars>>

\* ------------------------------------------------------------ clear_cache
handlerVars == <<pc, remote, key, contents, resp>>

\* max_size * 1_048_576
max_size == config.cache.val * MiB

\* line 246: if let Some(max_size) = max
SweepStart ==
    /\ spc = "start"
    /\ IF cache_enabled
       THEN /\ spc' = "sum"
            /\ cursor' = 1
       ELSE /\ spc' = "returned"
            /\ UNCHANGED cursor
    /\ UNCHANGED <<config, now, shared, handlerVars, size, item>>

\* lines 251-253: one step of cache.data.iter(); the entries are visited one
\* shard after the other, so the sum is no snapshot of the map.
SweepSum ==
    /\ spc = "sum"
    /\ IF cursor > NumTasks
       THEN /\ spc' = "loop"
            /\ UNCHANGED <<size, cursor>>
       ELSE /\ size' = IF cursor \in DOMAIN data
                       THEN size + capacity(data[cursor]) ELSE size
            /\ cursor' = cursor + 1
            /\ UNCHANGED spc
    /\ UNCHANGED <<config, now, shared, handlerVars, item>>

\* line 254: while size > max_size
SweepTest ==
    /\ spc = "loop"
    /\ spc' = IF UsizeGt(size, max_size) THEN "peek" ELSE "sleep"
    /\ UNCHANGED <<config, now, shared, handlerVars, size, cursor, item>>

\* lines 255-257: upgradable_read(), peek() and the subtraction.  With an
\* empty heap the guard is dropped and the loop condition is tested again.
\* A subtraction below zero panics (overflow checks on) or wraps (off).
SweepPeek ==
    /\ spc = "peek"
    /\ lock = Free
    /\ IF IsEmpty(expiries)
       THEN /\ spc' = "loop"
            /\ UNCHANGED <<lock, size, item>>
       ELSE LET head == peek(expiries)
                sub == size - KeyLen
            IN IF size >= 0 /\ sub < 0
               THEN \/ /\ spc' = "panicked"
                       /\ UNCHANGED <<lock, size, item>>
                    \/ /\ spc' = "remove"
                       /\ size' = sub
                       /\ item' = head
                       /\ lock' = Sweeper
               ELSE /\ spc' = "remove"
                    /\ size' = sub
                    /\ item' = head
                    /\ lock' = Sweeper
    /\ UNCHANGED <<config, now, ratelimits, db, data, expiries, issued,
                   handlerVars, cursor>>

\* line 258: cache.data.remove(&item.1)
SweepRemove ==
    /\ spc = "remove"
    /\ ShardFree(item[2])
    /\ data' = MapRemove(data, item[2])
    /\ spc' = "pop"
    /\ UNCHANGED <<config, now, ratelimits, db, expiries, lock, issued,
                   handlerVars, size, cursor, item>>

\* lines 259-261: upgrade, pop, and the guard dropped
SweepPop ==
    /\ spc = "pop"
    /\ expiries' = pop(expiries)
    /\ lock' = Free
    /\ item' = NoItem
    /\ spc' = "loop"
    /\ UNCHANGED <<config, now, ratelimits, db, data, issued, handlerVars,
                   size, cursor>>

\* line 263 and back to line 250: the sleep ends, size starts from 0
SweepWake ==
    /\ spc = "sleep"
    /\ spc' = "sum"
    /\ size' = 0
    /\ cursor' = 1
    /\ UNCHANGED <<config, now, shared, handlerVars, item>>

\* ------------------------------------------------------------------- Next
submit(t) ==
    \/ SubmitCheck(t)
    \/ SubmitInsert(t)
    \/ SubmitStore(t)
    \/ SubmitLock(t)
    \/ SubmitData(t)
    \/ SubmitPush(t)

getpaste(t) ==
    \/ GetProbe(t)
    \/ GetRelease(t)
    \/ GetDb(t)
    \/ GetLock(t)
    \/ GetData(t)
    \/ GetPush(t)

clear_cache ==
    \/ SweepStart
    \/ SweepSum
    \/ SweepTest
    \/ SweepPeek
    \/ SweepRemove
    \/ SweepPop
    \/ SweepWake

\* main: the two routes and the two spawned tasks, all configurations
Next ==
    \/ \E t \in Tasks : submit(t)
    \/ \E t \in Tasks : getpaste(t)
    \/ clear_cache
    \/ DeleteExpired
    \/ Tick
    \/ WeekPasses

Spec == Init /\ [][Next]_vars

\* The service with no cache configured (cache = None), with and without a
\* rate limit: the steps such a process can take.
InitNoCache == Init /\ ~config.cache.some

NextNoCache ==
    \/ \E t \in Tasks : SubmitCheck(t) \/ SubmitInsert(t) \/ SubmitStore(t)
    \/ \E t \in Tasks : GetProbe(t) \/ GetDb(t)
    \/ SweepStart
    \/ DeleteExpired
    \/ Tick
    \/ WeekPasses

SpecNoCache == InitNoCache /\ [][NextNoCache]_vars

\* The service with a cache budget and no rate limit (ratelimit = None).
\* The heap only compares its records: two instants, with the free choice of
\* keys, put the records of different keys in either order.
InitCache == Init /\ config.cache.some /\ ~config.ratelimit.some

NextCache ==
    \/ \E t \in Tasks : SubmitCheck(t) \/ SubmitStore(t) \/ SubmitLock(t)
                            \/ SubmitData(t) \/ SubmitPush(t)
    \/ \E t \in Tasks : getpaste(t)
    \/ clear_cache
    \/ Tick /\ now = 0

SpecCache == InitCache /\ [][NextCache]_vars

\* The same service when requests and sweep cycles never overlap: a handler
\* runs only while clear_cache rests, a cycle only when no handler is under
\* way.
SweeperResting == spc \in {"start", "sleep", "returned", "panicked"}
HandlersResting == \A t \in Tasks : pc[t] \in {"idle", "done"}

NextQuiet ==
    \/ /\ SweeperResting
       /\ \E t \in Tasks : SubmitCheck(t) \/ SubmitStore(t) \/ SubmitLock(t)
                               \/ SubmitData(t) \/ SubmitPush(t)
    \/ /\ SweeperResting
       /\ \E t \in Tasks : getpaste(t)
    \/ /\ HandlersResting
       /\ clear_cache
    \/ Tick /\ now = 0

SpecQuiet == InitCache /\ [][NextQuiet]_vars

\* The service with a budget of 1 MiB over more than a week, its tasks
\* scheduled fairly: tokio runs every spawned task and every request handler
\* that can take a step.
InitAge == Init /\ config.cache = Some(1) /\ ~config.ratelimit.some

NextAge ==
    \/ \E t \in Tasks : SubmitCheck(t) \/ SubmitStore(t) \/ SubmitLock(t)
                            \/ SubmitData(t) \/ SubmitPush(t)
    \/ \E t \in Tasks : getpaste(t)
    \/ clear_cache
    \/ DeleteExpired
    \/ Tick
    \/ WeekPasses

SpecAge ==
    /\ InitAge
    /\ [][NextAge]_vars
    /\ WF_vars(clear_cache)
    /\ WF_vars(DeleteExpired)
    /\ \A t \in Tasks : WF_vars(submit(t) \/ getpaste(t))

\* The service with a rate limit and a cache budget: its request handlers
\* over two instants, with clear_cache not yet scheduled.
InitLimited == Init /\ config.ratelimit.some /\ config.cache.some

NextLimited ==
    \/ \E t \in Tasks : submit(t)
    \/ \E t \in Tasks : getpaste(t)
    \/ Tick /\ now = 0

SpecLimited == InitLimited /\ [][NextLimited]_vars

\* ================================================================ claims

wait_ticks == config.ratelimit.val * TicksPerSec

\* A handler that has passed the rate-limit check and not yet left submit
Admitted(t) == pc[t] \in {"s_insert", "s_store"}

\* The step in which handler t is rejected by the rate limiter
Rejects(t) ==
    /\ pc[t] = "idle"
    /\ pc'[t] = "done"
    /\ resp'[t].kind = "RateLimited"

\* ceil(n / d) for n >= 0, d > 0
CeilDiv(n, d) == (n + d - 1) \div d

\* C1: with a rate limit configured, of two submissions of one identity that
\* both arrive within less than minInterval (here: while less than
\* minInterval has gone by since the process started) at most one passes the
\* check of line 126 and goes on to the insert of line 135.
C1_AdmissionAtomic ==
    (config.ratelimit.some /\ now < wait_ticks) =>
        \A t, u \in Tasks :
            (t # u /\ Admitted(t) /\ Admitted(u)) => remote[t] # remote[u]

\* C5: a submission of an identity with a prior record is rejected only when
\* elapsed < minInterval; with elapsed >= minInterval, the boundary
\* elapsed = minInterval included, it is admitted.
C5_AdmitAtThreshold ==
    [][\A t \in Tasks :
          Rejects(t) => now - ratelimits[remote'[t]] < wait_ticks]_vars

\* C6: a rejection reports remainingSeconds = ceil(minInterval - elapsed),
\* never a value rounded down.
C6_RemainingIsCeil ==
    [][\A t \in Tasks :
          Rejects(t) =>
             resp'[t].val =
                CeilDiv(wait_ticks - (now - ratelimits[remote'[t]]),
                        TicksPerSec)]_vars

\* C10: with no cache budget configured nothing is ever put into the data
\* map or the eviction index, no Get is a cache hit (every getpaste goes to
\* the database), nobody takes the index lock and clear_cache returns
\* without entering its loop.
C10_DisabledCacheNoOp ==
    ~config.cache.some =>
        /\ data = <<>>
        /\ IsEmpty(expiries)
        /\ lock = Free
        /\ spc \in {"start", "returned"}
        /\ \A t \in Tasks :
              /\ pc[t] \in {"idle", "s_insert", "s_store", "g_db", "done"}
              /\ resp[t].kind # "CacheHit"

\* a paste was submitted and then served, with the cache disabled and
\* clear_cache returned
W_C10 ==
    /\ ~config.cache.some
    /\ spc = "returned"
    /\ \E t, u \in Tasks :
          /\ resp[t].kind = "Found"
          /\ resp[u].kind = "OK"
          /\ resp[u].val > 0

RECURSIVE SumLen(_, _)
\* the byte lengths of the contents held under the keys S of map m, summed
SumLen(m, S) ==
    IF S = {} THEN 0
    ELSE LET k == CHOOSE x \in S : TRUE
         IN m[k].len + SumLen(m, S \ {k})

\* the number of records the heap holds for key k
RecordsOf(k) ==
    LET recs == {e \in BagToSet(expiries) : e[2] = k}
        RECURSIVE Count(_)
        Count(R) == IF R = {} THEN 0
                    ELSE LET e == CHOOSE x \in R : TRUE
                         IN CopiesIn(e, expiries) + Count(R \ {e})
    IN Count(recs)

\* C2: the eviction loop does not go round again having found the index
\* empty with the running total still over the budget: it stops.
C2_SweepStopsOnEmptyIndex ==
    [][~(/\ spc = "peek"
         /\ IsEmpty(expiries)
         /\ spc' = "loop"
         /\ UsizeGt(size', max_size))]_vars

\* C3: a sweep cycle that ran with no Put or Get under way ends (reaches its
\* sleep) with the contents left in the data map summing to at most the
\* budget.
C3_BudgetConvergence ==
    [][(spc # "sleep" /\ spc' = "sleep") =>
          SumLen(data', DOMAIN data') <= max_size]_vars

\* one record per live key, no two records of the same instant: the entries
\* were put at distinct increasing times and not read since
PutOnceAtDistinctTimes ==
    /\ \A k \in DOMAIN data : RecordsOf(k) = 1
    /\ \A e \in BagToSet(expiries) : e[2] \in DOMAIN data
    /\ \A e, f \in BagToSet(expiries) : e # f => e[1] # f[1]

\* C4: with entries put at distinct increasing times and not read since,
\* the record the sweeper evicts is the one with the smallest recordedAt.
C4_OldestFirst ==
    (spc = "remove" /\ PutOnceAtDistinctTimes) =>
        \A e \in BagToSet(expiries) : item[1] <= e[1]

\* C7: a cached text stays as it was put until the sweeper removes its key
\* (whatever other handlers do), and a probe of a key that is in the map is
\* a hit that returns that text.
C7_CacheCoherence ==
    [][/\ \A k \in DOMAIN data :
             \/ k \in DOMAIN data' /\ data'[k].len = data[k].len
             \/ spc = "remove" /\ spc' = "pop" /\ item[2] = k
       /\ \A t \in Tasks :
             (pc[t] = "idle" /\ pc'[t] \in {"g_hit", "g_db"}
                  /\ key'[t] \in DOMAIN data) =>
                (/\ pc'[t] = "g_hit"
                 /\ resp'[t].kind = "CacheHit"
                 /\ contents'[t].len = data[key'[t]].len)]_vars

\* a submit has put its contents, answered, and a getpaste of that key has
\* hit the very String the submit put
W_C7 ==
    \E t, u \in Tasks :
        /\ resp[u].kind = "Found"
        /\ resp[t].kind = "CacheHit"
        /\ key[t] = resp[u].val
        /\ key[t] \in DOMAIN data
        /\ data[key[t]].len > 0
        /\ data[key[t]].cap = 2 * data[key[t]].len
        /\ contents[t].len = data[key[t]].len

\* no Put, Get or sweep step is under way
Quiescent == HandlersResting /\ SweeperResting

\* C8 as stated: at rest every key of the data map has exactly one record
\* and every record refers to a key of the data map.
C8_ExactlyOneRecord ==
    Quiescent =>
        /\ \A k \in DOMAIN data : RecordsOf(k) = 1
        /\ \A e \in BagToSet(expiries) : e[2] \in DOMAIN data

\* C8 as amended: at rest every key of the data map has at least one record
\* (getpaste pushes a further record for a key that has one, and records
\* of evicted keys stay behind).
C8_AtLeastOneRecord ==
    Quiescent => \A k \in DOMAIN data : RecordsOf(k) >= 1

\* at rest after a sweep cycle that evicted one key and left another, whose
\* record is still in the heap
W_C8 ==
    /\ Quiescent
    /\ spc = "sleep"
    /\ DOMAIN data # {}
    /\ \E k \in issued : k \notin DOMAIN data /\ k \in DOMAIN db
    /\ \A k \in DOMAIN data : RecordsOf(k) >= 1

\* the paste under key k has been purged from the database as expired and
\* is still cached
ExpiredYetCached(k) == k \in DOMAIN data /\ k \notin DOMAIN db

\* C9: a cache entry whose paste has expired and been purged from the
\* database is eventually removed from the cache.
C9_EvictedByAge ==
    \A k \in Keys : ExpiredYetCached(k) ~> (k \notin DOMAIN data)

\* C11: a sweep cycle that starts with the cached contents summing to at most
\* the budget evicts nothing.  With no handler under way the map the
\* summation has read is the map the cycle started with, and the loop of
\* line 254, the only place that removes a key and pops a record, is not
\* entered: its condition is false when the summation ends.
C11_NoEvictionUnderBudget ==
    [][(/\ spc = "sum"
        /\ spc' = "loop"
        /\ SumLen(data, DOMAIN data) <= max_size)
          => ~UsizeGt(size', max_size)]_vars

SameRecord(b) ==
    /\ b \in DOMAIN ratelimits <=> b \in DOMAIN ratelimits'
    /\ b \in DOMAIN ratelimits => ratelimits'[b] = ratelimits[b]

\* the step in which handler t executes the insert of line 135
Records(t) == pc[t] = "s_insert" /\ pc'[t] = "s_store"

\* C13: a submission of an identity with no record in the table is never
\* rejected, and its insert records the present instant for that identity;
\* the insert leaves the record of every other identity as it was, and no
\* other step (a rejection, a passed check) touches the table at all.
C13_IdentityIndependence ==
    [][/\ \A t \in Tasks :
             /\ Rejects(t) => remote'[t] \in DOMAIN ratelimits
             /\ Records(t) =>
                   /\ remote[t] \in DOMAIN ratelimits'
                   /\ ratelimits'[remote[t]] = now
                   /\ \A b \in Identities \ {remote[t]} : SameRecord(b)
       /\ (\A t \in Tasks : ~Records(t)) => ratelimits' = ratelimits]_vars

\* both identities have been admitted, at different instants: the second
\* was admitted for the first time while the first had its record
W_C13 ==
    /\ DOMAIN ratelimits = {"A", "B"}
    /\ ratelimits["A"] # ratelimits["B"]

RECURSIVE SumCap(_, _)
\* what clear_cache sums (lines 251-253): the capacities of the Strings held
\* under the keys S of map m
SumCap(m, S) ==
    IF S = {} THEN 0
    ELSE LET k == CHOOSE x \in S : TRUE
         IN capacity(m[k]) + SumCap(m, S \ {k})

\* C14: in a sweep cycle that runs with no Put under way, every eviction
\* step (peek, subtract, remove, pop) leaves the running total equal to the
\* sum of the sizes of the contents still in the data map: it took off the
\* size of what it removed, and nothing for a stale record.
C14_TotalTracksCache ==
    [][(spc = "pop" /\ spc' = "loop") =>
          size' = SumCap(data', DOMAIN data')]_vars

\* C15: from the peek to the pop clear_cache holds the lock of the heap, so
\* no handler is between its own lock and its push; the head of the heap is
\* still the record that was peeked, which is therefore the record the pop
\* takes; and when the pop is due the key of that record has already been
\* removed from the data map.
C15_PeekEvictAtomic ==
    spc \in {"remove", "pop"} =>
        /\ lock = Sweeper
        /\ \A t \in Tasks : pc[t] \notin {"s_data", "s_push", "g_data", "g_push"}
        /\ ~IsEmpty(expiries)
        /\ peek(expiries) = item
        /\ pop(expiries) (+) SetToBag({item}) = expiries
        /\ spc = "pop" => item[2] \notin DOMAIN data

\* the key is removed and the pop is due while a getpaste that has read
\* that very key from the cache waits for the lock to insert and push it
W_C15 ==
    /\ spc = "pop"
    /\ item[2] \notin DOMAIN data
    /\ \E t \in Tasks : pc[t] = "g_lock" /\ key[t] = item[2]

\* C16: clear_cache never panics, and the subtraction of line 257 never
\* takes size below zero (size never holds a wrapped value).
C16_NoUnderflow == spc # "panicked" /\ size >= 0

\* C17: the step that rejects a submission with RateLimited leaves the
\* rate-limit table (the identity's instant included), the database, the
\* data map and the heap as they were, and the rejected handler takes no
\* step after it.
C17_RejectionChangesNothing ==
    [][\A t \in Tasks :
          /\ Rejects(t) =>
                /\ ratelimits' = ratelimits
                /\ db' = db
                /\ data' = data
                /\ expiries' = expiries
          /\ (pc[t] = "done" /\ resp[t].kind = "RateLimited") =>
                (pc'[t] = "done" /\ resp'[t] = resp[t])]_vars

\* a submission was rejected one tick after the admission of its identity
\* (half a second of the one-second interval was left, reported as 0) and
\* the table still holds the instant of the admission
W_C17 ==
    \E t \in Tasks :
        /\ resp[t].kind = "RateLimited"
        /\ resp[t].val = 0
        /\ now = 1
        /\ remote[t] \in DOMAIN ratelimits
        /\ ratelimits[remote[t]] = 0

\* C18: whenever nobody holds the lock of the heap, every key of the data
\* map has at least one record in the heap, whatever the handlers and
\* clear_cache are in the middle of.
C18_CachedKeyHasRecord ==
    lock = Free => \A k \in DOMAIN data : RecordsOf(k) >= 1

\* the lock is free with clear_cache about to peek, a getpaste waiting to
\* insert and push, and a cached key that has its record
W_C18 ==
    /\ lock = Free
    /\ spc = "peek"
    /\ \E t \in Tasks : pc[t] = "g_lock"
    /\ \E k \in DOMAIN data : RecordsOf(k) >= 1

\* handler t is in the middle of a request
UnderWay(t) == pc[t] \notin {"idle", "done"}

\* C19: no handler waits for the lock of the heap while it holds a Ref into
\* the data map, and the holder of the lock holds none (the Ref of the probe
\* is dropped before write() is called; the shard locks of insert and remove
\* are taken under the lock of the heap and given back at once).  So the
\* waiting never closes a circle: whenever a handler is under way or
\* clear_cache waits for the lock, a handler under way or clear_cache
\* holding the lock can take its next step.
C19_NoDeadlock ==
    /\ \A t \in Tasks :
          /\ pc[t] \in {"s_lock", "g_lock"} => Ref(t) = NoKey
          /\ lock = t => Ref(t) = NoKey
    /\ ((\E t \in Tasks : UnderWay(t)) \/ (spc = "peek" /\ lock # Free)) =>
          \/ \E t \in Tasks :
                UnderWay(t) /\ ENABLED (submit(t) \/ getpaste(t))
          \/ lock = Sweeper /\ ENABLED (SweepRemove \/ SweepPop)

\* clear_cache holds the lock and waits to remove a key whose shard a
\* getpaste holds through the Ref of its probe; the getpaste can go on
W_C19 ==
    /\ spc = "remove"
    /\ lock = Sweeper
    /\ ~ENABLED SweepRemove
    /\ \E t \in Tasks : Ref(t) = item[2] /\ ENABLED getpaste(t)

\* the step in which the submit of handler t fails after it was admitted
FailsAdmitted(t) ==
    /\ pc[t] = "s_store"
    /\ pc'[t] = "done"
    /\ resp'[t].kind \in {"PasteTooLarge", "FieldInvalid", "Sqlx"}

\* the step in which the rate-limit check of handler t is decided
Checked(t) == pc[t] = "idle" /\ pc'[t] \in {"s_insert", "done"}

\* C20: with a rate limit configured, a submit that fails on its length,
\* its form field or the INSERT has its identity in the table already, and
\* the failure leaves it there and stores nothing; a submission of an
\* identity whose record is younger than the interval is rejected, whatever
\* the database holds; and submit puts a key into the cache only when the
\* row of that key is in the database.
C20_AdmissionBeforeStore ==
    [][\A t \in Tasks :
          /\ FailsAdmitted(t) =>
                /\ remote[t] \in DOMAIN ratelimits
                /\ ratelimits' = ratelimits
                /\ db' = db
                /\ data' = data
          /\ (/\ Checked(t)
              /\ remote'[t] \in DOMAIN ratelimits
              /\ now - ratelimits[remote'[t]] < wait_ticks) => Rejects(t)
          /\ pc'[t] \in {"s_lock", "s_data", "s_push"} =>
                key'[t] \in DOMAIN db'
          /\ (pc[t] = "s_data" /\ pc'[t] = "s_push") =>
                (key[t] \in DOMAIN db /\ key[t] \in DOMAIN data')]_vars

\* one submit was admitted and failed, nothing is stored, and the next
\* submission of the same identity was rejected
W_C20 ==
    \E t, u \in Tasks :
        /\ resp[t].kind \in {"PasteTooLarge", "FieldInvalid", "Sqlx"}
        /\ resp[u].kind = "RateLimited"
        /\ db = <<>>
        /\ DOMAIN ratelimits = {remote[u]}
====
